---- MODULE Spec2Model ----
(***************************************************************************)
(* A model of the session-scoped conversation relay of agent-to-teams:     *)
(*   - the backend (src/backend/main.py): the in-memory session store and  *)
(*     the send_message turn chained through the Responses API;            *)
(*   - the Teams agent (src/teams-agent/app.py, backend_client.py): the    *)
(*     on_message handler with its session-not-found recovery;             *)
(*   - the streaming agent (src/step-by-step/step1..3/app.py): the         *)
(*     on_message handler that sends a response as a stream of frames.     *)
(*                                                                         *)
(* Text is modelled as a sequence of characters (user messages) or of      *)
(* words (error messages), so that emptiness, startswith and substring     *)
(* tests are computed the way the code computes them.                      *)
(***************************************************************************)
EXTENDS Integers, Sequences, FiniteSets, TLC

(* ------------------------------ bounds --------------------------------- *)

\* Sessions the direct HTTP clients may create.
MaxSessions == 2
\* send_message handlers the direct HTTP clients may start.
MaxTurns == 3
\* on_message invocations of the Teams agent.
MaxInvocations == 1
\* on_message invocations of the Teams agent that may run at once.
MaxConcurrent == 2

(* ----------------------------- constants ------------------------------- *)

\* Python's None as the value of last_response_id / previous_response_id.
\* A response id is a pair <<session, call>>, so None is the empty tuple.
None == << >>

\* Python's None as the value of a session id the agent does not have.
NoSession == 0

\* The default of AZURE_OPENAI_MODEL_DEPLOYMENT.
DefaultModel == "gpt-4o"

\* The caller of a backend handler that is a plain HTTP client (the
\* frontend, a test), as opposed to an on_message invocation 1..MaxInvocations.
Direct == 0

\* Message bodies the HTTP clients post: whitespace-only and text.
Messages == {<<" ">>, <<"h", "i">>}



\* Texts the upstream model may answer with.
Replies == {<<"o", "k">>}

VARIABLES
    chat_sessions,          \* backend: session_id -> session dict
    nextId,                 \* backend: the next uuid4 (ids are never reused)
    upstream,               \* session_id -> the Responses API calls made for it
    reply,                  \* the HTTP response on its way to a direct client
    conversation_sessions,  \* agent: conversation_id -> session_id
    inv,                    \* agent: the on_message invocations
    streams,                \* streaming agent: the on_message invocations
    sink                    \* streamId -> the frames the channel has taken

vars == <<chat_sessions, nextId, upstream, reply, conversation_sessions, inv,
          streams, sink>>
backendVars == <<chat_sessions, nextId, upstream>>
agentVars == <<conversation_sessions, inv>>
streamVars == <<streams, sink>>

(* ------------------------------ backend -------------------------------- *)

\* A logical clock for datetime.now() in create_session: it advances with
\* every created session.
now == nextId

\* An id generator that can return the id it returned last.
uuid4_repeats == IF nextId > 1 THEN nextId - 1 ELSE nextId

\* str(uuid.uuid4()): an id no session has had before.
uuid4 == nextId

\* Session ids the HTTP clients address: ids of live sessions, of deleted
\* sessions and ids no session has had yet.
SessionIds == 1..MaxSessions

\* The Responses API calls that have not returned yet, as <<session, call>>.
Pending ==
    {c \in UNION {{<<s, k>> : k \in 1..Len(upstream[s])} : s \in DOMAIN upstream} :
        upstream[c[1]][c[2]].status = "pending"}

\* The number of Responses API calls made so far.
RECURSIVE Calls(_)
Calls(ids) ==
    IF ids = {} THEN 0
    ELSE LET s == CHOOSE x \in ids : TRUE
         IN Len(upstream[s]) + Calls(ids \ {s})

\* A backend whose send_message awaits the Responses API (an asynchronous
\* client): other handlers run while a call is pending.
LoopYields == TRUE

\* The handlers are `async def` and the OpenAI client is the synchronous one:
\* send_message never awaits, so while it waits for the Responses API the
\* event loop runs no other handler.
LoopIdle == Pending = {}

\* The dict create_session stores.
NewSession(session_id) ==
    [session_id |-> session_id,
     created_at |-> now,
     model |-> DefaultModel,
     messages |-> << >>,
     last_response_id |-> None]

\* create_session: the store after the handler.
create_session ==
    /\ chat_sessions' =
         [s \in DOMAIN chat_sessions \cup {uuid4} |->
            IF s = uuid4 THEN NewSession(uuid4) ELSE chat_sessions[s]]
    /\ upstream' =
         [s \in DOMAIN upstream \cup {uuid4} |->
            IF s \in DOMAIN upstream THEN upstream[s] ELSE << >>]
    /\ nextId' = nextId + 1

\* The ChatSession body create_session returns.
ChatSession(session) ==
    [session_id |-> session.session_id,
     created_at |-> session.created_at,
     model |-> session.model]

\* A SessionDetail that counts the exchanges, not the messages.
SessionDetailCountsExchanges(session) ==
    [session_id |-> session.session_id,
     created_at |-> session.created_at,
     model |-> session.model,
     message_count |-> Len(session.messages) \div 2,
     last_response_id |-> session.last_response_id]

\* The SessionDetail body of list_sessions and get_session.
SessionDetail(session) ==
    [session_id |-> session.session_id,
     created_at |-> session.created_at,
     model |-> session.model,
     message_count |-> Len(session.messages),
     last_response_id |-> session.last_response_id]

\* chat_sessions.values(): a dict iterates in insertion order, which is the
\* order of the ids here.
RECURSIVE Values(_)
Values(ids) ==
    IF ids = {} THEN << >>
    ELSE LET m == CHOOSE x \in ids : \A y \in ids : x <= y
         IN <<chat_sessions[m]>> \o Values(ids \ {m})

\* A list_sessions that lists every session ever created, the deleted ones
\* as they were created.
list_sessions_stale ==
    [i \in 1..(nextId - 1) |->
        SessionDetail(IF i \in DOMAIN chat_sessions THEN chat_sessions[i]
                      ELSE NewSession(i))]

\* list_sessions: the body returned.
list_sessions ==
    LET vs == Values(DOMAIN chat_sessions)
    IN [i \in 1..Len(vs) |-> SessionDetail(vs[i])]

\* The `session_id not in chat_sessions` test of get, send and delete.
NotFound(session_id) == session_id \notin DOMAIN chat_sessions

\* A delete_session that empties the store.
delete_all(session_id) == chat_sessions' = << >>

\* A delete_session that answers without removing the session.
delete_nothing(session_id) == chat_sessions' = chat_sessions

\* delete_session: `del chat_sessions[session_id]`.
delete_session(session_id) ==
    chat_sessions' = [s \in DOMAIN chat_sessions \ {session_id} |-> chat_sessions[s]]

\* A send_message that never finds the previous response id.
ChainedNever(session) == FALSE

\* The branch of send_message: chained when a previous response is known.
Chained(session) == session.last_response_id # None

\* A send_message that keeps only the new user turn in the history.
AppendUserTruncates(messages, user_message) ==
    <<[role |-> "user", content |-> user_message]>>

\* The history after `session["messages"].append(user turn)`.
AppendUser(messages, user_message) ==
    Append(messages, [role |-> "user", content |-> user_message])

\* A send_message that sends the whole history with every request, chained
\* or not.
RequestFullAlways(session, messages, user_message) ==
    [previous_response_id |-> session.last_response_id,
     input |-> [i \in 1..Len(messages) |->
                  [role |-> messages[i].role, content |-> messages[i].content]]]

\* A send_message that sends only the new user turn with every request,
\* chained or not.
RequestLastOnly(session, messages, user_message) ==
    [previous_response_id |-> session.last_response_id,
     input |-> <<[role |-> "user", content |-> user_message]>>]

\* The arguments of client.responses.create for the session as it is after
\* the user turn was appended.
Request(session, messages, user_message) ==
    IF Chained(session)
    THEN [previous_response_id |-> session.last_response_id,
          input |-> <<[role |-> "user", content |-> user_message]>>]
    ELSE [previous_response_id |-> None,
          input |-> [i \in 1..Len(messages) |->
                       [role |-> messages[i].role,
                        content |-> messages[i].content]]]

\* send_message up to the Responses API call: the user turn is appended,
\* then the request is built and sent.  The record of the call keeps, beside
\* the request, who made it, where its user turn stands in the history and,
\* once it has returned, how it ended and where its answer was put.
send_message_call(session_id, user_message, caller) ==
    LET session == chat_sessions[session_id]
        messages == AppendUser(session.messages, user_message)
        request == Request(session, messages, user_message)
    IN /\ chat_sessions' =
            [chat_sessions EXCEPT ![session_id].messages = messages]
       /\ upstream' = [upstream EXCEPT ![session_id] = Append(@,
            [model |-> session.model,
             previous_response_id |-> request.previous_response_id,
             input |-> request.input,
             user_message |-> user_message,
             caller |-> caller,
             userPos |-> Len(messages),
             status |-> "pending",
             output_text |-> << >>,
             asstPos |-> 0])]

\* A send_message that also records a model with the response, as if it
\* took the deployment name from the response.
StoreResponseSetsModel(session, output_text, response_id) ==
    [session EXCEPT
        !.messages = Append(@, [role |-> "assistant", content |-> output_text]),
        !.last_response_id = response_id,
        !.model = "response.model"]

\* A send_message that appends the assistant turn and forgets the response id.
StoreResponseTurnOnly(session, output_text, response_id) ==
    [session EXCEPT
        !.messages = Append(@, [role |-> "assistant", content |-> output_text])]

\* A send_message that stores the response id and forgets the assistant turn.
StoreResponseIdOnly(session, output_text, response_id) ==
    [session EXCEPT !.last_response_id = response_id]

\* The session dict after the Responses API returned: the assistant turn is
\* appended and the response id stored.
StoreResponse(session, output_text, response_id) ==
    [session EXCEPT
        !.messages = Append(@, [role |-> "assistant", content |-> output_text]),
        !.last_response_id = response_id]

\* send_message after the Responses API returned `output_text` for call c.
\* The handler holds a reference to the session dict, which is the one in the
\* store unless the session was deleted meanwhile.
send_message_ok(c, output_text) ==
    LET sid == c[1]
        live == sid \in DOMAIN chat_sessions
        at == IF live THEN Len(chat_sessions[sid].messages) + 1 ELSE 0
    IN /\ upstream' = [upstream EXCEPT ![sid][c[2]].status = "ok",
                                       ![sid][c[2]].output_text = output_text,
                                       ![sid][c[2]].asstPos = at]
       /\ chat_sessions' =
            IF live
            THEN [chat_sessions EXCEPT
                    ![sid] = StoreResponse(@, output_text, c)]
            ELSE chat_sessions

\* An except branch that takes the unanswered user turn back.
StoreFailureRollsBack(session) ==
    [session EXCEPT !.messages = SubSeq(@, 1, Len(@) - 1)]

\* The session dict after the Responses API call raised: the except branch
\* stores nothing.
StoreFailure(session) == session

\* send_message when the Responses API call c raised: the handler answers 500.
send_message_error(c) ==
    LET sid == c[1]
    IN /\ upstream' = [upstream EXCEPT ![sid][c[2]].status = "error"]
       /\ chat_sessions' =
            IF sid \in DOMAIN chat_sessions
            THEN [chat_sessions EXCEPT ![sid] = StoreFailure(@)]
            ELSE chat_sessions

\* A MessageResponse that returns the response id the session had before
\* the call.
MessageResponseStaleId(c, output_text) ==
    [session_id |-> c[1],
     user_message |-> upstream[c[1]][c[2]].user_message,
     assistant_message |-> output_text,
     response_id |-> upstream[c[1]][c[2]].previous_response_id]

\* The MessageResponse body of a successful send_message.
MessageResponse(c, output_text) ==
    [session_id |-> c[1],
     user_message |-> upstream[c[1]][c[2]].user_message,
     assistant_message |-> output_text,
     response_id |-> c]

(* ------------------------- direct HTTP clients ------------------------- *)

Reply(op, session_id, status, body) ==
    [op |-> op, session_id |-> session_id, status |-> status, body |-> body]

NoBody == [detail |-> "none"]
NotFoundBody == [detail |-> "Session not found"]

\* No response is on its way.
NoReply == Reply("none", NoSession, 0, NoBody)

\* The direct client has taken the response to its last request.  The
\* handlers run one at a time, so that the client sends its next request
\* only then takes no behaviour of the backend away.
Taken == reply = NoReply

\* The direct client takes the response.
TakeReply ==
    /\ ~Taken
    /\ reply' = NoReply
    /\ UNCHANGED <<backendVars, agentVars, streamVars>>

\* POST /sessions
CreateSession ==
    /\ LoopIdle
    /\ Taken
    /\ nextId <= MaxSessions
    /\ create_session
    /\ reply' = Reply("create_session", uuid4, 200, ChatSession(NewSession(uuid4)))
    /\ UNCHANGED <<agentVars, streamVars>>

\* GET /sessions
ListSessions ==
    /\ LoopIdle
    /\ Taken
    /\ reply' = Reply("list_sessions", NoSession, 200, [sessions |-> list_sessions])
    /\ UNCHANGED <<backendVars, agentVars, streamVars>>

\* GET /sessions/{session_id}
GetSession ==
    \E session_id \in SessionIds :
        /\ LoopIdle
        /\ Taken
        /\ reply' = IF NotFound(session_id)
                    THEN Reply("get_session", session_id, 404, NotFoundBody)
                    ELSE Reply("get_session", session_id, 200,
                               SessionDetail(chat_sessions[session_id]))
        /\ UNCHANGED <<backendVars, agentVars, streamVars>>

\* DELETE /sessions/{session_id}
Delete(session_id) ==
    /\ LoopIdle
    /\ Taken
    /\ IF NotFound(session_id)
       THEN /\ reply' = Reply("delete_session", session_id, 404, NotFoundBody)
            /\ UNCHANGED chat_sessions
       ELSE /\ delete_session(session_id)
            /\ reply' = Reply("delete_session", session_id, 200, NoBody)
    /\ UNCHANGED <<nextId, upstream, agentVars, streamVars>>

DeleteSession == \E session_id \in SessionIds : Delete(session_id)

\* GET /health
HealthCheck ==
    /\ LoopIdle
    /\ Taken
    /\ reply' = Reply("health_check", NoSession, 200, [status |-> "healthy"])
    /\ UNCHANGED <<backendVars, agentVars, streamVars>>

\* A send_message that creates the session it does not find.
send_message_autocreate(session_id) ==
    /\ chat_sessions' =
         [s \in DOMAIN chat_sessions \cup {session_id} |->
            IF s = session_id THEN NewSession(session_id) ELSE chat_sessions[s]]
    /\ reply' = Reply("send_message", session_id, 404, NotFoundBody)
    /\ UNCHANGED <<upstream, nextId>>

\* The `raise HTTPException(status_code=404)` of send_message: nothing is
\* stored and the Responses API is not called.
send_message_404(session_id) ==
    /\ reply' = Reply("send_message", session_id, 404, NotFoundBody)
    /\ UNCHANGED <<chat_sessions, upstream, nextId>>

\* POST /sessions/{session_id}/messages, up to the Responses API call
SendMessage ==
    \E session_id \in SessionIds, message \in Messages :
        /\ LoopIdle
        /\ Taken
        /\ IF NotFound(session_id)
           THEN send_message_404(session_id)
           ELSE /\ Calls(DOMAIN upstream) < MaxTurns
                /\ send_message_call(session_id, message, Direct)
                /\ UNCHANGED <<reply, nextId>>
        /\ UNCHANGED <<agentVars, streamVars>>

\* The Responses API answers a direct client's call: the rest of send_message.
UpstreamOk ==
    \E c \in Pending, output_text \in Replies :
        /\ upstream[c[1]][c[2]].caller = Direct
        /\ send_message_ok(c, output_text)
        /\ reply' = Reply("send_message", c[1], 200,
                          MessageResponse(c, output_text))
        /\ UNCHANGED <<nextId, agentVars, streamVars>>

\* The Responses API call of a direct client raises.
UpstreamError ==
    \E c \in Pending :
        /\ upstream[c[1]][c[2]].caller = Direct
        /\ send_message_error(c)
        /\ reply' = Reply("send_message", c[1], 500,
                          [detail |-> "Error communicating with Azure OpenAI"])
        /\ UNCHANGED <<nextId, agentVars, streamVars>>

(* ----------------------------- Teams agent ----------------------------- *)

\* Conversations of the Teams channel.
Conversations == {"conv1", "conv2"}

\* context.activity.text of an incoming message: None, "", "/h", " ", "hi".
ActivityTexts ==
    {[is_none |-> TRUE, text |-> << >>],
     [is_none |-> FALSE, text |-> << >>],
     [is_none |-> FALSE, text |-> <<"/", "h">>],
     [is_none |-> FALSE, text |-> <<" ">>],
     [is_none |-> FALSE, text |-> <<"h", "i">>]}

\* HTTP statuses other than 200 and 404 that a backend call may end with.
FailureStatuses == {500}

UpperCase ==
    <<"A", "B", "C", "D", "E", "F", "G", "H", "I", "J", "K", "L", "M">> \o
    <<"N", "O", "P", "Q", "R", "S", "T", "U", "V", "W", "X", "Y", "Z">>
LowerCase ==
    <<"a", "b", "c", "d", "e", "f", "g", "h", "i", "j", "k", "l", "m">> \o
    <<"n", "o", "p", "q", "r", "s", "t", "u", "v", "w", "x", "y", "z">>
DigitChars == <<"0", "1", "2", "3", "4", "5", "6", "7", "8", "9">>

\* str.lower(), character by character.
LowerChar(ch) ==
    IF \E i \in 1..Len(UpperCase) : UpperCase[i] = ch
    THEN LowerCase[CHOOSE i \in 1..Len(UpperCase) : UpperCase[i] = ch]
    ELSE ch
Lower(str) == [i \in 1..Len(str) |-> LowerChar(str[i])]

\* `sub in str` of Python strings.
Contains(sub, str) ==
    \E i \in 1..(Len(str) - Len(sub) + 1) : SubSeq(str, i, i + Len(sub) - 1) = sub

\* str(n) of a natural number, as an f-string formats response.status.
RECURSIVE Str(_)
Str(n) ==
    IF n < 10 THEN <<DigitChars[n + 1]>>
    ELSE Str(n \div 10) \o <<DigitChars[(n % 10) + 1]>>

\* "Failed to create session: {status}" (BackendClient.create_session)
FailedToCreatePrefix ==
    <<"F", "a", "i", "l", "e", "d", " ", "t", "o", " ", "c", "r", "e", "a",
      "t", "e", " ", "s", "e", "s", "s", "i", "o", "n", ":", " ">>
CreateFailedMsg(status) == FailedToCreatePrefix \o Str(status)

\* "Session not found" (BackendClient.send_message on 404)
SessionNotFoundMsg ==
    <<"S", "e", "s", "s", "i", "o", "n", " ", "n", "o", "t", " ", "f", "o",
      "u", "n", "d">>

\* "Failed to send message: {status}" (BackendClient.send_message)
FailedToSendPrefix ==
    <<"F", "a", "i", "l", "e", "d", " ", "t", "o", " ", "s", "e", "n", "d",
      " ", "m", "e", "s", "s", "a", "g", "e", ":", " ">>
SendFailedMsg(status) == FailedToSendPrefix \o Str(status)

\* str(e) of the aiohttp error of a connection that could not be made or broke.
NetworkErrorMsg ==
    <<"C", "a", "n", "n", "o", "t", " ", "c", "o", "n", "n", "e", "c", "t",
      " ", "t", "o", " ", "h", "o", "s", "t">>

\* str(e) of the error context.send_activity raises when the channel
\* does not take the activity.
DeliveryErrorMsg ==
    <<"F", "a", "i", "l", "e", "d", " ", "t", "o", " ", "s", "e", "n", "d",
      " ", "a", "c", "t", "i", "v", "i", "t", "y">>

\* The texts the agent sends on failure.
TroubleText == <<"Sorry, I'm having trouble connecting to the AI service. Please try again later.">>
WentWrongText == <<"Sorry, something went wrong. Please try again.">>
OnErrorText == <<"The agent encountered an error or bug.">>

\* A screen that lets commands through: only the missing text is skipped.
SkipEmptyOnly(activity) ==
    \/ activity.is_none
    \/ Len(activity.text) = 0

\* `not user_message or user_message.startswith("/")`
Skip(activity) ==
    \/ activity.is_none
    \/ Len(activity.text) = 0
    \/ activity.text[1] = "/"

\* A recovery test that looks for the status code only.
ShouldRecoverOn404Only(error_msg) == Contains(<<"4", "0", "4">>, error_msg)

\* `"404" in error_msg or "session" in error_msg.lower()`
ShouldRecover(error_msg) ==
    \/ Contains(<<"4", "0", "4">>, error_msg)
    \/ Contains(<<"s", "e", "s", "s", "i", "o", "n">>, Lower(error_msg))

\* on_message up to its first await: the text is screened and the session
\* of the conversation looked up.  `limit` bounds the invocations.
on_message_start(limit) ==
    \E conversation_id \in Conversations, activity \in ActivityTexts :
        LET session_id == IF conversation_id \in DOMAIN conversation_sessions
                          THEN conversation_sessions[conversation_id]
                          ELSE NoSession
        IN /\ Len(inv) < limit
           /\ inv' = Append(inv,
                [conversation_id |-> conversation_id,
                 user_message |-> activity.text,
                 pc |-> IF Skip(activity) THEN "done"
                        ELSE IF session_id = NoSession THEN "create" ELSE "send",
                 phase |-> "try",
                 session_id |-> session_id,
                 error_msg |-> << >>,
                 response |-> << >>,
                 sent |-> << >>,
                 calls |-> << >>])
           /\ UNCHANGED <<backendVars, reply, conversation_sessions, streamVars>>

\* An incoming message activity: the application calls on_message.
OnMessage == on_message_start(MaxInvocations)

\* An incoming message activity where the one before may still be in its
\* on_message: the application starts a handler for every activity it
\* receives and does not wait for the handlers of the conversation.
OnMessageConcurrent == on_message_start(MaxConcurrent)

\* The record of one backend call or delivery of an invocation, kept to
\* state what on_message did: its kind, the session and how it ended.
Call(kind, session_id, result) ==
    [kind |-> kind, session_id |-> session_id, result |-> result]

\* An on_message whose except branches send nothing: the exception is
\* caught and the handler returns.
RaiseSwallowed(i, error_msg, call) ==
    inv' = [inv EXCEPT
        ![i].error_msg = error_msg,
        ![i].calls = Append(@, call),
        ![i].pc = "done"]

\* An on_message whose recovery is a loop: a failed retry is retried.
RaiseRetriesAgain(i, error_msg, call) ==
    inv' = [inv EXCEPT
        ![i].error_msg = error_msg,
        ![i].calls = Append(@, call),
        ![i].phase = IF ShouldRecover(error_msg) THEN "retry" ELSE @,
        ![i].pc = IF ShouldRecover(error_msg) THEN "create"
                  ELSE IF inv[i].phase = "retry" THEN "error_retry"
                  ELSE "error_other"]

\* An exception raised inside on_message.  In the outer try (lines 85-105)
\* the recovery test decides between a new session and the error text; in
\* the inner try (lines 98-101) the error text is sent.
Raise(i, error_msg, call) ==
    inv' = [inv EXCEPT
        ![i].error_msg = error_msg,
        ![i].calls = Append(@, call),
        ![i].phase = IF inv[i].phase = "try" /\ ShouldRecover(error_msg)
                     THEN "retry" ELSE @,
        ![i].pc = IF inv[i].phase = "retry" THEN "error_retry"
                  ELSE IF ShouldRecover(error_msg) THEN "create"
                  ELSE "error_other"]

\* `session_id = await backend_client.create_session()` and the assignment
\* to conversation_sessions that follows it.
AgentCreate == \E i \in 1..Len(inv) :
    /\ inv[i].pc = "create"
    /\ \/ /\ LoopIdle
          /\ create_session
          /\ conversation_sessions' =
               [c \in DOMAIN conversation_sessions \cup {inv[i].conversation_id} |->
                  IF c = inv[i].conversation_id THEN uuid4
                  ELSE conversation_sessions[c]]
          /\ inv' = [inv EXCEPT ![i].session_id = uuid4,
                                ![i].pc = "send",
                                ![i].calls = Append(@, Call("create", uuid4, "ok"))]
          /\ UNCHANGED <<reply, streamVars>>
       \/ /\ \E status \in FailureStatuses :
                Raise(i, CreateFailedMsg(status), Call("create", NoSession, "status"))
          /\ UNCHANGED <<backendVars, reply, conversation_sessions, streamVars>>
       \/ /\ Raise(i, NetworkErrorMsg, Call("create", NoSession, "network"))
          /\ UNCHANGED <<backendVars, reply, conversation_sessions, streamVars>>

\* `await backend_client.send_message(session_id, user_message)` up to the
\* backend's Responses API call, or to the 404 or the connection error.
AgentSend == \E i \in 1..Len(inv) :
    /\ inv[i].pc = "send"
    /\ \/ /\ LoopIdle
          /\ ~NotFound(inv[i].session_id)
          /\ send_message_call(inv[i].session_id, inv[i].user_message, i)
          /\ inv' = [inv EXCEPT ![i].pc = "await"]
          /\ UNCHANGED <<nextId, reply, conversation_sessions, streamVars>>
       \/ /\ LoopIdle
          /\ NotFound(inv[i].session_id)
          /\ Raise(i, SessionNotFoundMsg, Call("send", inv[i].session_id, "404"))
          /\ UNCHANGED <<backendVars, reply, conversation_sessions, streamVars>>
       \/ /\ Raise(i, NetworkErrorMsg, Call("send", inv[i].session_id, "network"))
          /\ UNCHANGED <<backendVars, reply, conversation_sessions, streamVars>>

\* The Responses API answers the call made for invocation i: the backend
\* answers 200 and BackendClient.send_message returns assistant_message.
AgentUpstreamOk == \E i \in 1..Len(inv) :
    \E c \in Pending, output_text \in Replies :
        /\ inv[i].pc = "await"
        /\ upstream[c[1]][c[2]].caller = i
        /\ send_message_ok(c, output_text)
        /\ inv' = [inv EXCEPT
                ![i].response = MessageResponse(c, output_text).assistant_message,
                ![i].pc = "deliver",
                ![i].calls = Append(@, Call("send", c[1], "ok"))]
        /\ UNCHANGED <<nextId, reply, conversation_sessions, streamVars>>

\* The Responses API call made for invocation i raises: the backend answers
\* 500 and BackendClient.send_message raises.
AgentUpstreamError == \E i \in 1..Len(inv) :
    \E c \in Pending :
        /\ inv[i].pc = "await"
        /\ upstream[c[1]][c[2]].caller = i
        /\ send_message_error(c)
        /\ Raise(i, SendFailedMsg(500), Call("send", c[1], "status"))
        /\ UNCHANGED <<nextId, reply, conversation_sessions, streamVars>>

\* `await context.send_activity(response)`
AgentDeliver == \E i \in 1..Len(inv) :
    /\ inv[i].pc = "deliver"
    /\ \/ inv' = [inv EXCEPT ![i].sent = Append(@, inv[i].response),
                             ![i].pc = "done",
                             ![i].calls = Append(@, Call("deliver", inv[i].session_id, "ok"))]
       \/ Raise(i, DeliveryErrorMsg, Call("deliver", inv[i].session_id, "failed"))
    /\ UNCHANGED <<backendVars, reply, conversation_sessions, streamVars>>

\* The send_activity of an except branch: the text of line 100 or line 104.
\* When it raises too, the exception leaves on_message.
AgentErrorActivity == \E i \in 1..Len(inv) :
    /\ inv[i].pc \in {"error_retry", "error_other"}
    /\ \/ inv' = [inv EXCEPT
                ![i].sent = Append(@, IF inv[i].pc = "error_retry"
                                      THEN TroubleText ELSE WentWrongText),
                ![i].pc = "done"]
       \/ inv' = [inv EXCEPT ![i].error_msg = DeliveryErrorMsg,
                             ![i].pc = "on_error"]
    /\ UNCHANGED <<backendVars, reply, conversation_sessions, streamVars>>

\* on_error, the application's handler of an exception that left on_message.
AgentOnError == \E i \in 1..Len(inv) :
    /\ inv[i].pc = "on_error"
    /\ \/ inv' = [inv EXCEPT ![i].sent = Append(@, OnErrorText), ![i].pc = "done"]
       \/ inv' = [inv EXCEPT ![i].pc = "done"]
    /\ UNCHANGED <<backendVars, reply, conversation_sessions, streamVars>>

\* Another client of the backend deletes a session the agent created: the
\* delete_session handler runs; the response to that client is not followed.
SessionDeleted ==
    \E session_id \in DOMAIN chat_sessions :
        /\ LoopIdle
        /\ delete_session(session_id)
        /\ UNCHANGED <<nextId, upstream, reply, agentVars, streamVars>>

(* --------------------------- streaming agent --------------------------- *)

\* The streaming on_message of src/step-by-step (step1, step2 and step3 have
\* the same handler).  Every invocation keeps the frames it handed to
\* context.send_activity, in the order of the calls.

\* on_message invocations of the streaming agent.
MaxStreams == 2

\* thinking_events
thinking_events ==
    <<<<"Got it, looking into it">>, <<"Searching Internet">>,
      <<"Searching Knowledge base">>, <<"Thinking">>>>

\* full_response, character by character
full_response ==
    <<"H", "e", "l", "l", "o", ",", " ", "t", "h", "i", "s", " ", "i", "s",
      " ", "t", "e", "s", "t", " ", "m", "e", "s", "s", "a", "g", "e", " ",
      "f", "r", "o", "m", " ", "P", "y", "t", "h", "o", "n", "!", " ", "[",
      "1", "]", "[", "2", "]", " ">> \o
    <<"T", "h", "i", "s", " ", "d", "e", "m", "o", "n", "s", "t", "r", "a",
      "t", "e", "s", " ", "h", "o", "w", " ", "c", "i", "t", "a", "t", "i",
      "o", "n", "s", " ", "w", "o", "r", "k", " ", "i", "n", " ", "M", "i",
      "c", "r", "o", "s", "o", "f", "t", " ", "T", "e", "a", "m", "s", " ",
      "a", "n", "d", " ", "C", "o", "p", "i", "l", "o", "t", ".">>

\* The citations of the final message: position and appearance.name.
citations ==
    <<[position |-> <<"1">>, name |-> "Microsoft 365 Agent SDK Documentation"],
      [position |-> <<"2">>, name |-> "Python Agent Sample"]>>
NoCitations == << >>

\* str.split(): the words between runs of spaces.
RECURSIVE SplitAt(_, _, _)
SplitAt(str, i, word) ==
    LET ended == IF word = << >> THEN << >> ELSE <<word>>
    IN IF i > Len(str) THEN ended
       ELSE IF str[i] = " " THEN ended \o SplitAt(str, i + 1, << >>)
       ELSE SplitAt(str, i + 1, Append(word, str[i]))
split(str) == SplitAt(str, 1, << >>)

\* str.strip(): without the spaces at both ends.
RECURSIVE lstrip(_)
lstrip(str) ==
    IF str # << >> /\ Head(str) = " " THEN lstrip(Tail(str)) ELSE str
RECURSIVE rstrip(_)
rstrip(str) ==
    IF str # << >> /\ str[Len(str)] = " "
    THEN rstrip(SubSeq(str, 1, Len(str) - 1)) ELSE str
strip(str) == lstrip(rstrip(str))

\* words = full_response.split()
words == split(full_response)

\* The final frame has no streamSequence.
NoStreamSequence == 0

\* An id taken from a clock that is too coarse: two invocations that start
\* one after the other get the same id.
stream_uuid4_coarse == (Len(streams) \div 2) + 1

\* str(uuid.uuid4()) of on_message: an id no stream has had before.
stream_uuid4 == Len(streams) + 1

\* An activity handed to context.send_activity, with the streaminfo entity
\* flattened into it; `delivered` tells whether send_activity returned.
Frame(type, text, streamId, streamType, streamSequence, cites) ==
    [type |-> type,
     text |-> text,
     streamId |-> streamId,
     streamType |-> streamType,
     streamSequence |-> streamSequence,
     citations |-> cites,
     delivered |-> TRUE]

\* The typing activity of a thinking event.
InformativeFrame(st) ==
    Frame("typing", thinking_events[st.i], st.stream_id, "informative",
          st.sequence, NoCitations)

\* A word loop that sends the word of the iteration only.
AccumulateDelta(st) == words[st.i] \o <<" ">>

\* `accumulated_text += word + " "`
Accumulate(st) == st.accumulated_text \o words[st.i] \o <<" ">>

\* The typing activity of a word: the text accumulated so far.
StreamingFrame(st) ==
    Frame("typing", strip(Accumulate(st)), st.stream_id, "streaming",
          st.sequence, NoCitations)

\* A final message that was left with the streamType of the word loop.
FinalFrameAsStreaming(st) ==
    Frame("message", full_response, st.stream_id, "streaming",
          NoStreamSequence, citations)

\* final_message
FinalFrame(st) ==
    Frame("message", full_response, st.stream_id, "final",
          NoStreamSequence, citations)

\* A loop that does not end: after its last item the handler waits for
\* something that never comes.
LoopNextWaits(st, items, after) ==
    IF st.i < Len(items) THEN [st EXCEPT !.i = @ + 1]
    ELSE [st EXCEPT !.pc = "waiting"]

\* The statement on_message goes to when the loop over `items` has handed
\* out item st.i: the next iteration, or what follows the loop.
LoopNext(st, items, after) ==
    IF st.i < Len(items) THEN [st EXCEPT !.i = @ + 1]
    ELSE [st EXCEPT !.pc = after, !.i = 1]

\* The first statement of on_message that sends, given the two lists.
FirstPc ==
    IF Len(thinking_events) > 0 THEN "informative"
    ELSE IF Len(words) > 0 THEN "streaming" ELSE "final"

\* A word loop that numbers its frames from 1 again.
AfterInformativeRestarts(st) ==
    [st EXCEPT !.pc = IF Len(words) > 0 THEN "streaming" ELSE "final",
               !.i = 1, !.sequence = 1]

\* After the loop over thinking_events: the word loop, with `sequence` as
\* the first loop left it.
AfterInformative(st) ==
    [st EXCEPT !.pc = IF Len(words) > 0 THEN "streaming" ELSE "final",
               !.i = 1]

\* An on_message that ignores the exception of send_activity and goes on.
RaisedIgnored(st, frame, next) ==
    [next EXCEPT !.frames = Append(st.frames, [frame EXCEPT !.delivered = FALSE])]

\* context.send_activity raised: on_message has no try, so the exception
\* leaves it and nothing after the call runs.
Raised(st, frame, next) ==
    [st EXCEPT !.frames = Append(@, [frame EXCEPT !.delivered = FALSE]),
               !.pc = "raised"]

\* context.send_activity returned.
Sent(st, frame, next) == [next EXCEPT !.frames = Append(st.frames, frame)]

\* The channel after it took an activity: a consumer follows a stream by
\* the streamId of the streaminfo entity, so the frames are kept by streamId
\* in the order they were taken, whichever invocation sent them.
ChannelTakes(frame) ==
    [id \in DOMAIN sink \cup {frame.streamId} |->
        IF id = frame.streamId
        THEN Append(IF id \in DOMAIN sink THEN sink[id] ELSE << >>,
                    [streamType |-> frame.streamType,
                     streamSequence |-> frame.streamSequence])
        ELSE sink[id]]

\* `await context.send_activity(frame)`: it returns, and on_message goes on
\* with `next`, or it raises.
SendActivity(n, frame, next) ==
    \/ /\ streams' = [streams EXCEPT ![n] = Sent(streams[n], frame, next)]
       /\ sink' = ChannelTakes(frame)
    \/ /\ streams' = [streams EXCEPT ![n] = Raised(streams[n], frame, next)]
       /\ UNCHANGED sink

\* on_message up to its first await: stream_id and sequence are set.
StreamOnMessage ==
    /\ Len(streams) < MaxStreams
    /\ streams' = Append(streams,
         [stream_id |-> stream_uuid4,
          sequence |-> 1,
          pc |-> FirstPc,
          i |-> 1,
          accumulated_text |-> << >>,
          frames |-> << >>])
    /\ UNCHANGED <<backendVars, reply, agentVars, sink>>

\* One iteration of `for event_text in thinking_events`.
StreamInformative == \E n \in 1..Len(streams) :
    LET st == streams[n]
        counted == [st EXCEPT !.sequence = @ + 1]
        next == IF st.i < Len(thinking_events)
                THEN LoopNext(counted, thinking_events, "streaming")
                ELSE AfterInformative(counted)
    IN /\ st.pc = "informative"
       /\ SendActivity(n, InformativeFrame(st), next)
       /\ UNCHANGED <<backendVars, reply, agentVars>>

\* One iteration of `for i, word in enumerate(words)`.
StreamWord == \E n \in 1..Len(streams) :
    LET st == streams[n]
        counted == [st EXCEPT !.accumulated_text = Accumulate(st),
                              !.sequence = @ + 1]
    IN /\ st.pc = "streaming"
       /\ SendActivity(n, StreamingFrame(st), LoopNext(counted, words, "final"))
       /\ UNCHANGED <<backendVars, reply, agentVars>>

\* `await context.send_activity(final_message)`: the end of on_message.
StreamFinal == \E n \in 1..Len(streams) :
    LET st == streams[n]
    IN /\ st.pc = "final"
       /\ SendActivity(n, FinalFrame(st), [st EXCEPT !.pc = "done"])
       /\ UNCHANGED <<backendVars, reply, agentVars>>

(* --------------------------- specification ----------------------------- *)

Init ==
    /\ chat_sessions = << >>
    /\ nextId = 1
    /\ upstream = << >>
    /\ reply = NoReply
    /\ conversation_sessions = << >>
    /\ inv = << >>
    /\ streams = << >>
    /\ sink = << >>

Next ==
    \/ CreateSession
    \/ ListSessions
    \/ GetSession
    \/ DeleteSession
    \/ HealthCheck
    \/ SendMessage
    \/ UpstreamOk
    \/ UpstreamError
    \/ TakeReply

Spec == Init /\ [][Next]_vars

\* The Teams agent in front of the backend; a direct client may delete
\* sessions under it.
NextAgent ==
    \/ OnMessage
    \/ AgentCreate
    \/ AgentSend
    \/ AgentUpstreamOk
    \/ AgentUpstreamError
    \/ AgentDeliver
    \/ AgentErrorActivity
    \/ AgentOnError
    \/ SessionDeleted

SpecAgent == Init /\ [][NextAgent]_vars

\* The Teams agent with on_message invocations that overlap.
NextConcurrent ==
    \/ OnMessageConcurrent
    \/ AgentCreate
    \/ AgentSend
    \/ AgentUpstreamOk
    \/ AgentUpstreamError
    \/ AgentDeliver
    \/ AgentErrorActivity
    \/ AgentOnError
    \/ SessionDeleted

SpecConcurrent == Init /\ [][NextConcurrent]_vars

\* The streaming agent: invocations of its on_message run interleaved at
\* their awaits.
NextStream ==
    \/ StreamOnMessage
    \/ StreamInformative
    \/ StreamWord
    \/ StreamFinal

SpecStream == Init /\ [][NextStream]_vars

\* A step of an invocation that has started: one of its awaits is over.
StreamStep == StreamInformative \/ StreamWord \/ StreamFinal

\* The streaming agent with the scheduling of asyncio: an invocation that
\* waits in `await context.send_activity(...)` or `await asyncio.sleep(...)`
\* is resumed, and send_activity returns or raises.
SpecStreamFair ==
    /\ Init
    /\ [][NextStream]_vars
    /\ WF_vars(StreamStep)

(* ------------------------ properties: the backend ---------------------- *)

\* The calls of session s that the Responses API answered.
OkCalls(s) == {k \in 1..Len(upstream[s]) : upstream[s][k].status = "ok"}
ErrorCalls(s) == {k \in 1..Len(upstream[s]) : upstream[s][k].status = "error"}
FullHistory(call) == call.previous_response_id = None

UserTurn(content) == [role |-> "user", content |-> content]
AssistantTurn(content) == [role |-> "assistant", content |-> content]

\* C1 (chain continuity): in every session, of the N calls that succeeded
\* exactly one carried the full history and N-1 were chained, whatever
\* failed calls lie between them; and no call made after a successful one
\* is a full-history call.
C1_ChainContinuity ==
    \A s \in DOMAIN upstream :
        /\ OkCalls(s) # {} =>
             /\ Cardinality({k \in OkCalls(s) : FullHistory(upstream[s][k])}) = 1
             /\ Cardinality({k \in OkCalls(s) : ~FullHistory(upstream[s][k])})
                  = Cardinality(OkCalls(s)) - 1
        /\ \A k \in OkCalls(s) : \A j \in (k + 1)..Len(upstream[s]) :
             ~FullHistory(upstream[s][j])

\* Two successful turns of one session with a failed turn beside them.
C1_Witness ==
    \E s \in DOMAIN upstream :
        Cardinality(OkCalls(s)) = 2 /\ ErrorCalls(s) # {}

\* C2 (first turn): a session whose only turn so far succeeded, that is a
\* successful turn on a freshly created session, has a history of exactly
\* two entries: the user turn, then the assistant turn.
C2_FreshTurnAddsTwo ==
    \A s \in DOMAIN chat_sessions :
        (Len(upstream[s]) = 1 /\ upstream[s][1].status = "ok") =>
            chat_sessions[s].messages =
                <<UserTurn(upstream[s][1].user_message),
                  AssistantTurn(upstream[s][1].output_text)>>

C2_Witness ==
    \E s \in DOMAIN chat_sessions :
        /\ Len(upstream[s]) = 1
        /\ upstream[s][1].status = "ok"
        /\ Len(chat_sessions[s].messages) = 2

\* C3 (unknown session): no step makes a Responses API call for an id that
\* is not in the store, and a step that answers a send_message on such an id
\* answers 404 and leaves the store and the calls as they were.
C3_UnknownSessionIs404 ==
    [][\A sid \in SessionIds :
         NotFound(sid) =>
            /\ sid \in DOMAIN upstream => upstream'[sid] = upstream[sid]
            /\ (reply' # reply /\ reply'.op = "send_message"
                   /\ reply'.session_id = sid) =>
                 /\ reply'.status = 404
                 /\ chat_sessions' = chat_sessions
                 /\ upstream' = upstream]_vars

\* A 404 was answered to a send_message while another session is live.
C3_Witness ==
    /\ reply.op = "send_message"
    /\ reply.status = 404
    /\ NotFound(reply.session_id)
    /\ \E s \in DOMAIN chat_sessions : Len(chat_sessions[s].messages) > 0

\* C7 (turns serialize): in a session whose K turns all succeeded, however
\* the requests arrived, the history has 2K entries and the k-th pair is the
\* user turn of the k-th call directly followed by its answer.
C7_TurnsSerialize ==
    \A s \in DOMAIN chat_sessions :
        (\A k \in 1..Len(upstream[s]) : upstream[s][k].status = "ok") =>
            /\ Len(chat_sessions[s].messages) = 2 * Len(upstream[s])
            /\ \A k \in 1..Len(upstream[s]) :
                 /\ upstream[s][k].userPos = 2 * k - 1
                 /\ upstream[s][k].asstPos = 2 * k
                 /\ chat_sessions[s].messages[2 * k - 1]
                      = UserTurn(upstream[s][k].user_message)
                 /\ chat_sessions[s].messages[2 * k]
                      = AssistantTurn(upstream[s][k].output_text)

\* Three turns of one session, all answered.
C7_Witness ==
    \E s \in DOMAIN chat_sessions :
        /\ Len(upstream[s]) = MaxTurns
        /\ \A k \in 1..Len(upstream[s]) : upstream[s][k].status = "ok"

\* C8 (isolation): in every step, a session that is in the store either
\* stays as it is, or is removed by a successful delete_session on its own
\* id, or is changed by a send_message turn of its own (a call made or
\* answered for it).
C8_SessionIsolation ==
    [][\A s \in DOMAIN chat_sessions :
         \/ /\ s \in DOMAIN chat_sessions'
            /\ chat_sessions'[s] = chat_sessions[s]
         \/ /\ s \notin DOMAIN chat_sessions'
            /\ reply' = Reply("delete_session", s, 200, NoBody)
         \/ /\ s \in DOMAIN chat_sessions'
            /\ upstream'[s] # upstream[s]
            /\ chat_sessions'[s].session_id = chat_sessions[s].session_id]_vars

\* Another session was just deleted beside a session that has a history.
C8_Witness ==
    /\ reply.op = "delete_session"
    /\ reply.status = 200
    /\ \E s \in DOMAIN chat_sessions :
         /\ s # reply.session_id
         /\ Len(chat_sessions[s].messages) = 2

\* Text that is empty or made of spaces only.
IsBlank(text) == \A i \in 1..Len(text) : text[i] = " "

\* C9 (blank input is rejected): no Responses API call is made for a blank
\* user text and no blank user turn is in a history.
C9_BlankRejected ==
    \A s \in DOMAIN upstream :
        /\ \A k \in 1..Len(upstream[s]) : ~IsBlank(upstream[s][k].user_message)
        /\ s \in DOMAIN chat_sessions =>
             \A i \in 1..Len(chat_sessions[s].messages) :
                 chat_sessions[s].messages[i].role = "user" =>
                     ~IsBlank(chat_sessions[s].messages[i].content)

\* C10 (failed turn): the step that makes a call appends the user turn and
\* nothing else, and the step in which that call fails answers 500 and leaves
\* the session as the call step left it: no assistant turn, the same
\* last_response_id.
C10_FailedTurnKeepsSession ==
    [][\A s \in DOMAIN chat_sessions :
         /\ (s \in DOMAIN chat_sessions' /\ Len(upstream'[s]) = Len(upstream[s]) + 1) =>
               chat_sessions'[s] =
                   [chat_sessions[s] EXCEPT !.messages =
                       Append(@, UserTurn(upstream'[s][Len(upstream'[s])].user_message))]
         /\ \A k \in 1..Len(upstream[s]) :
               (upstream[s][k].status = "pending" /\ upstream'[s][k].status = "error") =>
                   /\ s \in DOMAIN chat_sessions'
                   /\ chat_sessions'[s] = chat_sessions[s]
                   /\ chat_sessions'[s].messages[Len(chat_sessions'[s].messages)]
                        = UserTurn(upstream[s][k].user_message)
                   /\ Len(chat_sessions'[s].messages) = upstream[s][k].userPos
                   /\ chat_sessions'[s].last_response_id
                        = upstream[s][k].previous_response_id
                   /\ reply'.status = 500]_vars

\* A turn failed after an earlier turn of the session had succeeded.
C10_Witness ==
    /\ reply.op = "send_message"
    /\ reply.status = 500
    /\ \E s \in DOMAIN chat_sessions :
         /\ s = reply.session_id
         /\ chat_sessions[s].last_response_id # None
         /\ upstream[s][Len(upstream[s])].status = "error"
         /\ Len(chat_sessions[s].messages) = 3

\* The calls of session s that have not returned yet.
PendingCalls(s) == {k \in 1..Len(upstream[s]) : upstream[s][k].status = "pending"}

\* The last call made for session s succeeded: the state right after a
\* successful turn of s.
AfterSuccess(s) ==
    /\ Len(upstream[s]) > 0
    /\ upstream[s][Len(upstream[s])].status = "ok"

\* C11 as stated (history parity): right after a successful turn the history
\* has an even length, and the length is odd only while the last entry is a
\* user turn whose call is in flight or failed.
C11_HistoryParity ==
    \A s \in DOMAIN chat_sessions :
        LET h == chat_sessions[s].messages
        IN /\ AfterSuccess(s) => Len(h) % 2 = 0
           /\ Len(h) % 2 = 1 =>
                /\ h[Len(h)].role = "user"
                /\ Len(upstream[s]) > 0
                /\ upstream[s][Len(upstream[s])].status \in {"pending", "error"}

\* C11 as amended (history count): the history holds two entries for every
\* turn that succeeded and one, the unanswered user turn, for every turn that
\* failed or is in flight; the answer of a successful turn directly follows
\* its user turn.  So the length is even after a successful turn exactly
\* when an even number of turns of the session have failed.
C11_HistoryCount ==
    \A s \in DOMAIN chat_sessions :
        LET h == chat_sessions[s].messages
        IN /\ Len(h) = 2 * Cardinality(OkCalls(s)) + Cardinality(ErrorCalls(s))
                         + Cardinality(PendingCalls(s))
           /\ \A k \in OkCalls(s) :
                /\ upstream[s][k].asstPos = upstream[s][k].userPos + 1
                /\ h[upstream[s][k].userPos] = UserTurn(upstream[s][k].user_message)
                /\ h[upstream[s][k].asstPos] = AssistantTurn(upstream[s][k].output_text)
           /\ \A k \in ErrorCalls(s) \cup PendingCalls(s) :
                h[upstream[s][k].userPos] = UserTurn(upstream[s][k].user_message)
           /\ AfterSuccess(s) =>
                (Len(h) % 2 = 0 <=> Cardinality(ErrorCalls(s)) % 2 = 0)

\* A turn succeeded after a turn of the same session had failed: the history
\* has three entries and ends with the assistant turn.
C11_Witness ==
    \E s \in DOMAIN chat_sessions :
        /\ AfterSuccess(s)
        /\ Cardinality(ErrorCalls(s)) = 1
        /\ Len(chat_sessions[s].messages) = 3
        /\ chat_sessions[s].messages[3].role = "assistant"

\* Session s was created and is no longer in the store; sessions leave the
\* store only by a successful delete_session (C8).
Deleted(s) == s \in DOMAIN upstream /\ s \notin DOMAIN chat_sessions

\* The step answers a request `op` on session s.
Answers(op, s) ==
    /\ reply' # reply
    /\ reply'.op = op
    /\ reply'.session_id = s

\* C12 (idempotent delete): a delete_session succeeds exactly when the id is
\* in the store and then removes it; on an id that is not in the store, a
\* deleted one included, it answers 404 and changes nothing; and a deleted id
\* stays out of the store.  So of two deletes of one id, one succeeds and the
\* next is answered 404.
C12_IdempotentDelete ==
    [][\A s \in SessionIds :
         /\ Answers("delete_session", s) =>
              /\ reply'.status \in {200, 404}
              /\ reply'.status = 200 <=> s \in DOMAIN chat_sessions
              /\ reply'.status = 200 => ~Deleted(s)
              /\ reply'.status = 404 => chat_sessions' = chat_sessions
              /\ s \notin DOMAIN chat_sessions'
         /\ Deleted(s) => s \notin DOMAIN chat_sessions']_vars

\* The second delete of an id was answered 404.
C12_Witness ==
    /\ reply.op = "delete_session"
    /\ reply.status = 404
    /\ Deleted(reply.session_id)

\* C13 (session id uniqueness): the step of a create_session adds one record
\* under an id that no live session has, leaves every record of the store as
\* it was, and the new record has an empty history and no response id; and
\* every record of the store is kept under its own session_id.
C13_SessionIdUnique ==
    [][/\ (reply' # reply /\ reply'.op = "create_session") =>
            LET id == reply'.session_id
            IN /\ id \notin DOMAIN chat_sessions
               /\ DOMAIN chat_sessions' = DOMAIN chat_sessions \cup {id}
               /\ \A s \in DOMAIN chat_sessions :
                    chat_sessions'[s] = chat_sessions[s]
               /\ id \in DOMAIN chat_sessions' =>
                    /\ chat_sessions'[id].messages = << >>
                    /\ chat_sessions'[id].last_response_id = None
       /\ \A s \in DOMAIN chat_sessions' : chat_sessions'[s].session_id = s]_vars

\* A session was created beside a live session that has a history.
C13_Witness ==
    /\ reply.op = "create_session"
    /\ reply.session_id \in DOMAIN chat_sessions
    /\ \E s \in DOMAIN chat_sessions :
         /\ s # reply.session_id
         /\ Len(chat_sessions[s].messages) = 2

\* C16 (last_response_id): after every step, a live session has no
\* last_response_id exactly when none of its turns has succeeded; the step
\* in which a call of the session succeeds stores the id of that call's
\* response, the one the handler returns; and a step never takes a session
\* from having a last_response_id to having none.
C16_LastResponseId ==
    [][\A s \in DOMAIN chat_sessions' :
         /\ (chat_sessions'[s].last_response_id = None) <=> (OkCalls(s)' = {})
         /\ \A k \in 1..Len(upstream'[s]) :
              (upstream'[s][k].status = "ok"
                 /\ (k > Len(upstream[s]) \/ upstream[s][k].status # "ok")) =>
                  /\ chat_sessions'[s].last_response_id = <<s, k>>
                  /\ reply'.status = 200
                  /\ reply'.body.response_id = chat_sessions'[s].last_response_id
         /\ (s \in DOMAIN chat_sessions
               /\ chat_sessions[s].last_response_id # None) =>
              /\ chat_sessions'[s].last_response_id # None
              /\ \/ chat_sessions'[s].last_response_id
                      = chat_sessions[s].last_response_id
                 \/ OkCalls(s)' # OkCalls(s)]_vars

\* After two successful turns a third one failed: the session still has the
\* response id of the second.
C16_Witness ==
    \E s \in DOMAIN chat_sessions :
        /\ OkCalls(s) = {1, 2}
        /\ ErrorCalls(s) = {3}
        /\ chat_sessions[s].last_response_id = <<s, 2>>

\* The session ids in the body of a list_sessions response.
Listed(body) == {body.sessions[i].session_id : i \in 1..Len(body.sessions)}

\* C17 (after delete): once a session was deleted, every get_session,
\* send_message and delete_session on its id is answered 404 and changes
\* neither the store nor the calls, no list_sessions response contains the
\* id, and the id is in the store again only by a create_session that
\* returned it.
C17_DeletedStaysNotFound ==
    [][\A s \in SessionIds :
         Deleted(s) =>
            /\ \A op \in {"get_session", "send_message", "delete_session"} :
                 Answers(op, s) =>
                    /\ reply'.status = 404
                    /\ reply'.body = NotFoundBody
                    /\ chat_sessions' = chat_sessions
                    /\ upstream' = upstream
            /\ (reply' # reply /\ reply'.op = "list_sessions") =>
                 /\ s \notin Listed(reply'.body)
                 /\ Listed(reply'.body) = DOMAIN chat_sessions
            /\ s \in DOMAIN chat_sessions' => Answers("create_session", s)]_vars

\* A get_session on a deleted session that had a history was answered 404
\* while another session is live.
C17_Witness ==
    /\ reply.op = "get_session"
    /\ reply.status = 404
    /\ Deleted(reply.session_id)
    /\ Len(upstream[reply.session_id]) > 0
    /\ chat_sessions # << >>

\* Sequence p is a prefix of sequence q.
IsPrefix(p, q) == Len(p) <= Len(q) /\ SubSeq(q, 1, Len(p)) = p

\* C20 (append-only history): in every step, the history of a session that
\* stays in the store keeps its entries and their order (the old history is
\* a prefix of the new one), grows by at most one entry, and every entry has
\* the role user or assistant.
C20_HistoryAppendOnly ==
    [][\A s \in DOMAIN chat_sessions' :
         /\ \A i \in 1..Len(chat_sessions'[s].messages) :
              chat_sessions'[s].messages[i].role \in {"user", "assistant"}
         /\ s \in DOMAIN chat_sessions =>
              /\ IsPrefix(chat_sessions[s].messages, chat_sessions'[s].messages)
              /\ Len(chat_sessions'[s].messages)
                   <= Len(chat_sessions[s].messages) + 1]_vars

\* A history of a failed turn followed by a successful one, beside another
\* live session.
C20_Witness ==
    \E s \in DOMAIN chat_sessions :
        /\ Len(chat_sessions[s].messages) = 3
        /\ chat_sessions[s].messages[1].role = "user"
        /\ chat_sessions[s].messages[2].role = "user"
        /\ chat_sessions[s].messages[3].role = "assistant"
        /\ \E t \in DOMAIN chat_sessions : t # s

\* C21 (fixed fields): in every step, a session that stays in the store
\* keeps its session_id, created_at and model, whatever the step is: a
\* send_message call made, answered or failed, or any request on another
\* session.
C21_FieldsFixed ==
    [][\A s \in DOMAIN chat_sessions \cap DOMAIN chat_sessions' :
         /\ chat_sessions'[s].session_id = chat_sessions[s].session_id
         /\ chat_sessions'[s].created_at = chat_sessions[s].created_at
         /\ chat_sessions'[s].model = chat_sessions[s].model]_vars

\* A session had a successful and a failed turn and has the fields it was
\* created with; another session was created after it.
C21_Witness ==
    \E s \in DOMAIN chat_sessions :
        /\ OkCalls(s) # {}
        /\ ErrorCalls(s) # {}
        /\ chat_sessions[s] = [NewSession(s) EXCEPT
                !.created_at = s,
                !.messages = chat_sessions[s].messages,
                !.last_response_id = chat_sessions[s].last_response_id]
        /\ \E t \in DOMAIN chat_sessions : chat_sessions[t].created_at > s

\* The positions of the assistant turns in a history.
AssistantPositions(h) == {i \in 1..Len(h) : h[i].role = "assistant"}

\* C22 (no lost update of the chain id): in a session with a successful
\* turn, however the requests arrived, the last assistant entry of the
\* history is the answer of one successful call, last_response_id is the id
\* of the response of that call, and no two successful calls of the session
\* were made with the same previous_response_id.
C22_NoLostChainUpdate ==
    \A s \in DOMAIN chat_sessions :
        LET h == chat_sessions[s].messages
        IN /\ OkCalls(s) # {} =>
                /\ AssistantPositions(h) # {}
                /\ \E k \in OkCalls(s) :
                     /\ \A a \in AssistantPositions(h) : a <= upstream[s][k].asstPos
                     /\ upstream[s][k].asstPos \in AssistantPositions(h)
                     /\ h[upstream[s][k].asstPos]
                          = AssistantTurn(upstream[s][k].output_text)
                     /\ chat_sessions[s].last_response_id = <<s, k>>
           /\ \A j \in OkCalls(s), k \in OkCalls(s) :
                j # k => upstream[s][j].previous_response_id
                           # upstream[s][k].previous_response_id

\* Two turns of a session succeeded with a failed one between them: the
\* second was chained from the first, and its response id is the stored one.
C22_Witness ==
    \E s \in DOMAIN chat_sessions :
        /\ OkCalls(s) = {1, 3}
        /\ ErrorCalls(s) = {2}
        /\ upstream[s][3].previous_response_id = <<s, 1>>
        /\ chat_sessions[s].last_response_id = <<s, 3>>

\* C23 (chained request): a call made with a previous_response_id carries
\* one input turn, the new user message; the id is that of the response of
\* the latest call of the session that had succeeded when the call was made,
\* and while the call is in flight it is the session's last_response_id.
C23_ChainedRequest ==
    \A s \in DOMAIN upstream :
        \A k \in 1..Len(upstream[s]) :
            LET call == upstream[s][k]
            IN ~FullHistory(call) =>
                 /\ call.input = <<UserTurn(call.user_message)>>
                 /\ \E j \in 1..(k - 1) :
                      /\ call.previous_response_id = <<s, j>>
                      /\ upstream[s][j].status = "ok"
                      /\ \A m \in (j + 1)..(k - 1) : upstream[s][m].status = "error"
                 /\ (call.status = "pending" /\ s \in DOMAIN chat_sessions) =>
                      call.previous_response_id = chat_sessions[s].last_response_id

\* A chained call is in flight; the turn before it failed and the one
\* before that succeeded.
C23_Witness ==
    \E s \in DOMAIN chat_sessions :
        /\ Len(upstream[s]) = 3
        /\ upstream[s][1].status = "ok"
        /\ upstream[s][2].status = "error"
        /\ upstream[s][3].status = "pending"
        /\ upstream[s][3].previous_response_id = <<s, 1>>
        /\ Len(upstream[s][3].input) = 1

\* C24 (full-history request): a call made without previous_response_id is
\* made while no call of the session has succeeded, and its input is the
\* whole history as it stands after the new user turn was appended: one
\* user turn for every earlier, failed call, in their order, and the new
\* user message last.
C24_FullHistoryRequest ==
    \A s \in DOMAIN upstream :
        \A k \in 1..Len(upstream[s]) :
            LET call == upstream[s][k]
            IN FullHistory(call) =>
                 /\ \A j \in 1..(k - 1) : upstream[s][j].status = "error"
                 /\ Len(call.input) = call.userPos
                 /\ call.input = [j \in 1..k |-> UserTurn(upstream[s][j].user_message)]
                 /\ call.input[Len(call.input)] = UserTurn(call.user_message)
                 /\ s \in DOMAIN chat_sessions =>
                      call.input = SubSeq(chat_sessions[s].messages, 1, call.userPos)

\* A full-history call that carried the user turns of two failed turns
\* before the new one was answered.
C24_Witness ==
    \E s \in DOMAIN chat_sessions :
        /\ Len(upstream[s]) = 3
        /\ FullHistory(upstream[s][3])
        /\ upstream[s][3].status = "ok"
        /\ Len(upstream[s][3].input) = 3
        /\ upstream[s][1].user_message # upstream[s][3].user_message

\* The call of session s whose response has the id `response_id`.
CallOf(response_id) == upstream[response_id[1]][response_id[2]]

\* The turns the Responses API holds for a response of call k of session s:
\* those of the response the call was chained from, the input of the call
\* and the answer.
RECURSIVE Context(_, _)
Context(s, k) ==
    LET call == upstream[s][k]
        before == IF FullHistory(call) THEN << >>
                  ELSE Context(s, call.previous_response_id[2])
    IN before \o call.input \o <<AssistantTurn(call.output_text)>>

\* C25 (history and upstream context agree): in a session with a
\* last_response_id, the turns the Responses API holds for that response
\* are the history of the session up to the answer of that response; a user
\* turn after it, in flight or failed, is left aside.
C25_HistoryMatchesUpstream ==
    \A s \in DOMAIN chat_sessions :
        chat_sessions[s].last_response_id # None =>
            Context(s, chat_sessions[s].last_response_id[2])
                = SubSeq(chat_sessions[s].messages, 1,
                         CallOf(chat_sessions[s].last_response_id).asstPos)

\* C26 (returned values are the stored ones): when a send_message has
\* answered 200, the assistant_message of the body is the content of the
\* last entry of the session's history, an assistant turn; the user_message
\* is the content of the entry before it, a user turn; and the response_id
\* is the session's last_response_id.
C26_ReturnsStored ==
    (reply.op = "send_message" /\ reply.status = 200) =>
        /\ reply.session_id \in DOMAIN chat_sessions
        /\ LET session == chat_sessions[reply.session_id]
               h == session.messages
           IN /\ Len(h) >= 2
              /\ h[Len(h)] = AssistantTurn(reply.body.assistant_message)
              /\ h[Len(h) - 1] = UserTurn(reply.body.user_message)
              /\ reply.body.response_id = session.last_response_id
              /\ reply.body.response_id # None
              /\ reply.body.session_id = session.session_id

\* A send_message answered 200 on a session whose history holds the user
\* turn of a failed turn before the pair of this one.
C26_Witness ==
    /\ reply.op = "send_message"
    /\ reply.status = 200
    /\ reply.session_id \in DOMAIN chat_sessions
    /\ Len(chat_sessions[reply.session_id].messages) = 5
    /\ ErrorCalls(reply.session_id) = {2}

\* The summary agrees with the session the store holds under its id.
Summarises(detail) ==
    /\ detail.session_id \in DOMAIN chat_sessions
    /\ detail.message_count = Len(chat_sessions[detail.session_id].messages)
    /\ detail.last_response_id = chat_sessions[detail.session_id].last_response_id

\* C31 (session summaries): a list_sessions response holds one summary for
\* every session in the store, which are the sessions created and not
\* deleted since, and none for any other id; every summary of list_sessions
\* and the one of a get_session answered 200 carry as message_count the
\* length of the history of the session and as last_response_id the value
\* the session has.
C31_SummariesMatchStore ==
    /\ reply.op = "list_sessions" =>
        LET sessions == reply.body.sessions
        IN /\ Len(sessions) = Cardinality(DOMAIN chat_sessions)
           /\ \A s \in DOMAIN chat_sessions :
                Cardinality({i \in 1..Len(sessions) : sessions[i].session_id = s}) = 1
           /\ \A s \in SessionIds :
                Deleted(s) => \A i \in 1..Len(sessions) : sessions[i].session_id # s
           /\ \A s \in 1..(nextId - 1) :
                (\E i \in 1..Len(sessions) : sessions[i].session_id = s) \/ Deleted(s)
           /\ \A i \in 1..Len(sessions) : Summarises(sessions[i])
    /\ (reply.op = "get_session" /\ reply.status = 200) =>
        /\ reply.body.session_id = reply.session_id
        /\ Summarises(reply.body)

\* A list_sessions response with the summary of a session that has had an
\* exchange, while the other session that was created is deleted.
C31_Witness ==
    /\ reply.op = "list_sessions"
    /\ Len(reply.body.sessions) = 1
    /\ reply.body.sessions[1].message_count = 2
    /\ reply.body.sessions[1].last_response_id # None
    /\ \E s \in SessionIds : Deleted(s)

\* Session s was deleted while one of its Responses API calls had not
\* returned.
DeletedInFlight(s) ==
    /\ Deleted(s)
    /\ \E k \in 1..Len(upstream[s]) : upstream[s][k].status = "pending"

\* While a Responses API call of send_message has not returned, no other
\* handler runs: no session is deleted while one of its turns is in flight,
\* and the step in which a turn ends leaves the ids in the store as they are.
TurnKeepsSessionLive ==
    [][/\ \A s \in SessionIds : ~DeletedInFlight(s)'
       /\ Pending' # Pending /\ Pending' \subseteq Pending =>
            DOMAIN chat_sessions' = DOMAIN chat_sessions]_vars

(* ------------------------- properties: the agent ----------------------- *)

\* The first backend call or delivery of invocation i that failed (0: none).
FirstFailure(i) ==
    LET failed == {j \in 1..Len(inv[i].calls) : inv[i].calls[j].result # "ok"}
    IN IF failed = {} THEN 0
       ELSE CHOOSE j \in failed : \A k \in failed : j <= k

\* The first failure of invocation i is a send_message answered 404.
NotFoundFirst(i) ==
    /\ FirstFailure(i) > 0
    /\ inv[i].calls[FirstFailure(i)].kind = "send"
    /\ inv[i].calls[FirstFailure(i)].result = "404"

\* The Responses API calls the backend made for invocation i.
CallsBy(i) ==
    {c \in UNION {{<<s, k>> : k \in 1..Len(upstream[s])} : s \in DOMAIN upstream} :
        upstream[c[1]][c[2]].caller = i}

ErrorTexts == {TroubleText, WentWrongText, OnErrorText}

\* C4 (recovery): after a send_message answered 404, on_message calls
\* create_session, sends the same user message once to the session that call
\* returned, a session it has not used before, and delivers the answer; it
\* ends with the answer delivered when all three succeeded, and with the
\* error text (or nothing, when that cannot be delivered either) only when
\* one of them failed.
C4_RecoveryPolicy ==
    \A i \in 1..Len(inv) :
        NotFoundFirst(i) =>
            LET c == inv[i].calls
                f == FirstFailure(i)
                n == Len(c) - f
            IN /\ n <= 3
               /\ n = 0 => inv[i].pc = "create"
               /\ n >= 1 =>
                    /\ c[f + 1].kind = "create"
                    /\ c[f + 1].result = "ok" =>
                         \A j \in 1..f : c[j].session_id < c[f + 1].session_id
               /\ n >= 2 =>
                    /\ c[f + 1].result = "ok"
                    /\ c[f + 2].kind = "send"
                    /\ c[f + 2].session_id = c[f + 1].session_id
               /\ n >= 3 =>
                    /\ c[f + 2].result = "ok"
                    /\ c[f + 3].kind = "deliver"
               /\ Cardinality(CallsBy(i)) <= 1
               /\ \A u \in CallsBy(i) :
                    /\ n >= 1
                    /\ u[1] = c[f + 1].session_id
                    /\ upstream[u[1]][u[2]].user_message = inv[i].user_message
               /\ (n >= 2 /\ c[f + 2].result \in {"ok", "status"}) =>
                    Cardinality(CallsBy(i)) = 1
               /\ \A k \in 1..Len(inv[i].sent) :
                    inv[i].sent[k] \in ErrorTexts =>
                        /\ inv[i].sent[k] # WentWrongText
                        /\ n >= 1
                        /\ c[Len(c)].result # "ok"
               /\ inv[i].pc = "done" =>
                    IF n = 3 /\ c[f + 3].result = "ok"
                    THEN /\ inv[i].sent = <<inv[i].response>>
                         /\ \E u \in CallsBy(i) :
                              upstream[u[1]][u[2]].output_text = inv[i].response
                    ELSE /\ n >= 1
                         /\ c[Len(c)].result # "ok"
                         /\ inv[i].sent \in {<<TroubleText>>, <<OnErrorText>>, << >>}

\* A recovery that delivered the answer of the new session.
C4_Witness ==
    \E i \in 1..Len(inv) :
        /\ NotFoundFirst(i)
        /\ inv[i].pc = "done"
        /\ Len(inv[i].calls) = FirstFailure(i) + 3
        /\ inv[i].sent = <<inv[i].response>>
        /\ inv[i].calls[Len(inv[i].calls)].result = "ok"

\* C5 (no retry of other failures): when the first failure of an invocation
\* is anything but a send_message answered 404, on_message makes no backend
\* call after it: no session is created and the message is not sent.
C5_OtherFailuresNotRetried ==
    \A i \in 1..Len(inv) :
        (FirstFailure(i) > 0 /\ ~NotFoundFirst(i)) =>
            Len(inv[i].calls) = FirstFailure(i)

\* The send_message calls invocation i has made, answered or not.
SendAttempts(i) ==
    Cardinality({j \in 1..Len(inv[i].calls) : inv[i].calls[j].kind = "send"})
        + (IF inv[i].pc = "await" THEN 1 ELSE 0)

Failures(i) ==
    Cardinality({j \in 1..Len(inv[i].calls) : inv[i].calls[j].result # "ok"})

\* C6 (one retry at most): an on_message invocation makes at most two
\* send_message calls and at most two create_session calls, and after a
\* second failure it makes no further call.
C6_AtMostOneRetry ==
    \A i \in 1..Len(inv) :
        /\ SendAttempts(i) <= 2
        /\ Cardinality({j \in 1..Len(inv[i].calls) :
                           inv[i].calls[j].kind = "create"}) <= 2
        /\ Cardinality(CallsBy(i)) <= 2
        /\ Failures(i) <= 2
        /\ Failures(i) = 2 => inv[i].pc \in {"error_retry", "on_error", "done"}

\* Both send_message calls of an invocation failed and the error text was sent.
C6_Witness ==
    \E i \in 1..Len(inv) :
        /\ SendAttempts(i) = 2
        /\ Failures(i) = 2
        /\ inv[i].pc = "done"
        /\ inv[i].sent = <<TroubleText>>

\* Invocation i went into the try block of on_message: its text was not
\* screened out, so a create_session or a send_message was called.
Forwarded(i) == Len(inv[i].calls) > 0

\* A send_message call of invocation i was answered 200.
SendSucceeded(i) ==
    \E j \in 1..Len(inv[i].calls) :
        inv[i].calls[j].kind = "send" /\ inv[i].calls[j].result = "ok"

\* A context.send_activity of invocation i raised: that of the reply, or
\* that of an error text.
DeliveryFailed(i) ==
    \/ \E j \in 1..Len(inv[i].calls) :
          inv[i].calls[j].kind = "deliver" /\ inv[i].calls[j].result # "ok"
    \/ inv[i].error_msg = DeliveryErrorMsg

\* C19 as stated (no silent failure): an invocation that forwarded the user
\* message ends with an activity sent to the user; the last one sent is the
\* assistant reply exactly when a send_message call succeeded, and an error
\* text otherwise.
C19_NoSilentFailure ==
    \A i \in 1..Len(inv) :
        (inv[i].pc = "done" /\ Forwarded(i)) =>
            /\ Len(inv[i].sent) > 0
            /\ (SendSucceeded(i) <=>
                  inv[i].sent[Len(inv[i].sent)] = inv[i].response)
            /\ ~SendSucceeded(i) =>
                  inv[i].sent[Len(inv[i].sent)] \in ErrorTexts

\* C19 as amended (failures are surfaced as far as the channel takes an
\* activity): an invocation that forwarded the user message ends with at
\* most one activity sent.  It is the assistant reply exactly when a
\* send_message call succeeded and the send_activity of the reply returned;
\* otherwise it is one of the three error texts, or nothing when the
\* send_activity of the error text raised and that of on_error too.  When no
\* send_activity raised, an activity was sent, and it is the reply exactly
\* when a send_message call succeeded.
C19_FailuresSurfaced ==
    \A i \in 1..Len(inv) :
        (inv[i].pc = "done" /\ Forwarded(i)) =>
            LET c == inv[i].calls
                replied == c[Len(c)].kind = "deliver" /\ c[Len(c)].result = "ok"
            IN /\ Len(inv[i].sent) <= 1
               /\ replied =>
                    /\ SendSucceeded(i)
                    /\ inv[i].sent = <<inv[i].response>>
                    /\ \E u \in CallsBy(i) :
                         /\ upstream[u[1]][u[2]].status = "ok"
                         /\ upstream[u[1]][u[2]].output_text = inv[i].response
               /\ ~replied =>
                    /\ inv[i].sent \in {<<TroubleText>>, <<WentWrongText>>,
                                        <<OnErrorText>>, << >>}
                    /\ c[Len(c)].result # "ok"
               /\ inv[i].sent = << >> => inv[i].error_msg = DeliveryErrorMsg
               /\ ~DeliveryFailed(i) =>
                    /\ Len(inv[i].sent) = 1
                    /\ SendSucceeded(i) <=> inv[i].sent = <<inv[i].response>>
                    /\ ~SendSucceeded(i) => inv[i].sent[1] \in ErrorTexts

\* The backend answered, the send_activity of the reply raised, and the
\* user was sent the error text.
C19_Witness ==
    \E i \in 1..Len(inv) :
        /\ inv[i].pc = "done"
        /\ SendSucceeded(i)
        /\ DeliveryFailed(i)
        /\ inv[i].sent = <<WentWrongText>>

\* The send_activity of the reply of invocation i raised.
ReplyNotDelivered(i) ==
    \E j \in 1..Len(inv[i].calls) :
        inv[i].calls[j].kind = "deliver" /\ inv[i].calls[j].result # "ok"

\* C27 (no completed turn without delivery): when the send_activity of the
\* reply of an invocation raised, the backend session does not hold the
\* assistant turn of the send_message call made for that invocation.
C27_UndeliveredNotPersisted ==
    \A i \in 1..Len(inv) :
        ReplyNotDelivered(i) =>
            \A u \in CallsBy(i) :
                (upstream[u[1]][u[2]].status = "ok" /\ u[1] \in DOMAIN chat_sessions) =>
                    ~\E a \in 1..Len(chat_sessions[u[1]].messages) :
                        /\ a = upstream[u[1]][u[2]].asstPos
                        /\ chat_sessions[u[1]].messages[a]
                             = AssistantTurn(upstream[u[1]][u[2]].output_text)

\* The on_message invocations of a conversation.
InvocationsOf(conversation_id) ==
    {i \in 1..Len(inv) : inv[i].conversation_id = conversation_id}

\* The backend calls invocation i has made and got an answer to, by kind.
CallsOfKind(i, kind) ==
    {k \in 1..Len(inv[i].calls) : inv[i].calls[k].kind = kind}

\* A backend call of invocation i failed.
BackendCallFailed(i) ==
    \E k \in CallsOfKind(i, "create") \cup CallsOfKind(i, "send") :
        inv[i].calls[k].result # "ok"

\* The backend sessions the messages of a conversation were sent to.
SessionsSentTo(conversation_id) ==
    {s \in DOMAIN upstream :
        \E k \in 1..Len(upstream[s]) :
            upstream[s][k].caller \in InvocationsOf(conversation_id)}

\* C32 (one backend session per conversation): as long as no backend call
\* of the invocations of a conversation has failed, however the invocations
\* interleave, create_session was called at most once for the conversation
\* and all its messages were sent to one backend session.
C32_OneSessionPerConversation ==
    \A conversation_id \in Conversations :
        (\A i \in InvocationsOf(conversation_id) : ~BackendCallFailed(i)) =>
            /\ Cardinality({i \in InvocationsOf(conversation_id) :
                              CallsOfKind(i, "create") # {}}) <= 1
            /\ \A i \in InvocationsOf(conversation_id) :
                 Cardinality(CallsOfKind(i, "create")) <= 1
            /\ Cardinality(SessionsSentTo(conversation_id)) <= 1

\* The session ids successful create_session calls of the agent returned.
CreatedForAgent ==
    UNION {{inv[i].calls[k].session_id : k \in CallsOfKind(i, "create")} :
              i \in 1..Len(inv)} \ {NoSession}

\* Invocation i delivers the assistant reply in this step.
DeliversReply(i) ==
    /\ i \in 1..Len(inv)
    /\ inv[i].pc = "deliver"
    /\ inv'[i].pc = "done"
    /\ inv'[i].sent = Append(inv[i].sent, inv[i].response)

\* The backend session whose send_message returned the reply invocation i
\* holds: the session of its last successful send.
ReplySession(i) ==
    LET sends == {k \in CallsOfKind(i, "send") : inv[i].calls[k].result = "ok"}
    IN inv[i].calls[CHOOSE k \in sends : \A j \in sends : j <= k].session_id

\* A create_session call of invocation i fails in this step.
CreateFails(i) ==
    /\ i \in 1..Len(inv)
    /\ inv[i].pc = "create"
    /\ Len(inv'[i].calls) = Len(inv[i].calls) + 1
    /\ inv'[i].calls[Len(inv'[i].calls)].kind = "create"
    /\ inv'[i].calls[Len(inv'[i].calls)].result # "ok"

\* C33 (conversation_sessions): every value stored for a conversation is an
\* id a successful create_session call returned; when an invocation has
\* delivered an assistant reply, its conversation maps to the session that
\* produced the reply; and a create_session that fails, at the first
\* attempt or in the recovery, leaves the mapping as it was.
C33_MappingFollowsSessions ==
    [][/\ \A c \in DOMAIN conversation_sessions' :
            conversation_sessions'[c] \in CreatedForAgent'
       /\ \A i \in 1..MaxConcurrent :
            DeliversReply(i) =>
                /\ inv[i].conversation_id \in DOMAIN conversation_sessions'
                /\ conversation_sessions'[inv[i].conversation_id] = ReplySession(i)
       /\ \A i \in 1..MaxConcurrent :
            CreateFails(i) => conversation_sessions' = conversation_sessions]_vars

\* The text of invocation i is missing, empty or a command.
NothingToForward(i) ==
    \/ inv[i].user_message = << >>
    \/ Head(inv[i].user_message) = "/"

\* C35 (skipped messages): an on_message whose text is None, empty or
\* starts with "/" returns at once: it makes no create_session and no
\* send_message call, no Responses API call is made for it, it sends no
\* activity, and if conversation_sessions holds a session it is one that an
\* invocation with a text to forward created.
C35_SkippedDoesNothing ==
    /\ \A i \in 1..Len(inv) :
        NothingToForward(i) =>
            /\ inv[i].pc = "done"
            /\ inv[i].calls = << >>
            /\ inv[i].sent = << >>
            /\ \A s \in DOMAIN upstream :
                 \A k \in 1..Len(upstream[s]) : upstream[s][k].caller # i
    /\ \A c \in DOMAIN conversation_sessions :
        \E i \in InvocationsOf(c) :
            /\ ~NothingToForward(i)
            /\ \E k \in CallsOfKind(i, "create") :
                 /\ inv[i].calls[k].result = "ok"
                 /\ inv[i].calls[k].session_id = conversation_sessions[c]

\* An on_message with the text "/h" has returned.
C35_Witness ==
    \E i \in 1..Len(inv) :
        /\ inv[i].user_message = <<"/", "h">>
        /\ inv[i].pc = "done"
        /\ inv[i].calls = << >>
        /\ inv[i].sent = << >>
        /\ conversation_sessions = << >>

(* --------------------- properties: the streaming agent ----------------- *)

\* The positions of the frames of kind `streamType` in the frames of a stream.
FramesOf(st, streamType) ==
    {a \in 1..Len(st.frames) : st.frames[a].streamType = streamType}

\* C14 (phase order): in the frames of every stream, which all carry the id
\* of the stream and ids differ between streams, every informative frame
\* stands before every streaming frame; there is at most one final frame
\* and nothing follows it; and a stream whose on_message ran to its end has
\* exactly one final frame, its last frame.
C14_PhaseOrder ==
    \A n \in 1..Len(streams) :
        LET st == streams[n]
            F == st.frames
        IN /\ \A a \in 1..Len(F) :
                /\ F[a].streamId = st.stream_id
                /\ F[a].streamType \in {"informative", "streaming", "final"}
           /\ \A o \in 1..Len(streams) : o # n => streams[o].stream_id # st.stream_id
           /\ \A a \in FramesOf(st, "informative"), b \in FramesOf(st, "streaming") :
                a < b
           /\ Cardinality(FramesOf(st, "final")) <= 1
           /\ \A a \in FramesOf(st, "final") : a = Len(F)
           /\ st.pc = "done" =>
                /\ FramesOf(st, "final") = {Len(F)}
                /\ Cardinality(FramesOf(st, "informative")) = Len(thinking_events)
                /\ Cardinality(FramesOf(st, "streaming")) = Len(words)

\* A stream ran to its end while another one was between its two loops.
C14_Witness ==
    \E n \in 1..Len(streams), o \in 1..Len(streams) :
        /\ streams[n].pc = "done"
        /\ Len(streams[n].frames) = Len(thinking_events) + Len(words) + 1
        /\ streams[o].pc = "streaming"
        /\ Len(streams[o].frames) = Len(thinking_events)

\* C15 (sequence numbers): in the frames of every stream the a-th frame of
\* the two loops carries streamSequence a, so the numbers start at 1 and go
\* up by one through both phases, and the final frame carries none.
C15_SequenceNumbers ==
    \A n \in 1..Len(streams) :
        LET F == streams[n].frames
        IN \A a \in 1..Len(F) :
             IF F[a].streamType = "final"
             THEN F[a].streamSequence = NoStreamSequence
             ELSE /\ F[a].streamSequence = a
                  /\ F[a].streamSequence # NoStreamSequence

\* A finished stream: the last thinking event has number 4, the first word
\* 5, the last word 22, and the final frame no number.
C15_Witness ==
    \E n \in 1..Len(streams) :
        LET F == streams[n].frames
            k == Len(thinking_events)
        IN /\ streams[n].pc = "done"
           /\ F[k].streamType = "informative" /\ F[k].streamSequence = k
           /\ F[k + 1].streamType = "streaming" /\ F[k + 1].streamSequence = k + 1
           /\ F[Len(F) - 1].streamSequence = k + Len(words)
           /\ F[Len(F)].streamSequence = NoStreamSequence

\* C18 (cancellation): a frame whose send_activity raised is the last frame
\* of its stream, the invocation has ended with the exception, and no final
\* frame follows it; an invocation ends this way only by such a frame.
C18_NoFrameAfterFailure ==
    \A n \in 1..Len(streams) :
        LET st == streams[n]
            F == st.frames
        IN /\ \A a \in 1..Len(F) :
                ~F[a].delivered =>
                    /\ a = Len(F)
                    /\ st.pc = "raised"
                    /\ \A b \in FramesOf(st, "final") : b = a
           /\ st.pc = "raised" => (Len(F) > 0 /\ ~F[Len(F)].delivered)

\* A stream was cut in its word loop; another stream ran to its end later.
C18_Witness ==
    \E n \in 1..Len(streams), o \in 1..Len(streams) :
        /\ n < o
        /\ streams[n].pc = "raised"
        /\ Len(streams[n].frames) = Len(thinking_events) + 3
        /\ FramesOf(streams[n], "final") = {}
        /\ streams[o].pc = "done"

\* Invocation n has ended with its stream complete: every thinking event
\* and every word of the response had its frame, and the final frame is the
\* last one.
StreamComplete(n) ==
    /\ Len(streams) >= n
    /\ streams[n].pc = "done"
    /\ Len(streams[n].frames) = Len(thinking_events) + Len(words) + 1
    /\ Cardinality(FramesOf(streams[n], "informative")) = Len(thinking_events)
    /\ Cardinality(FramesOf(streams[n], "streaming")) = Len(words)
    /\ streams[n].frames[Len(streams[n].frames)].streamType = "final"

\* A send_activity of invocation n raised.
StreamCut(n) == Len(streams) >= n /\ streams[n].pc = "raised"

\* C28 (termination): every invocation that has started comes to its end:
\* unless one of its send_activity calls raises, it sends the final frame
\* after the frames of the four thinking events and of the words of the
\* response, one for each.
C28_StreamTerminates ==
    \A n \in 1..MaxStreams :
        (Len(streams) >= n) ~> (StreamComplete(n) \/ StreamCut(n))

\* All invocations have ended with their streams complete; the response has
\* four thinking events and eighteen words.
C28_Witness ==
    /\ Len(streams) = MaxStreams
    /\ \A n \in 1..Len(streams) : StreamComplete(n)
    /\ Len(thinking_events) = 4
    /\ Len(words) = 18

\* What the channel holds of a frame.
AtChannel(frame) ==
    [streamType |-> frame.streamType, streamSequence |-> frame.streamSequence]

\* The frames of an invocation that send_activity returned for, as the
\* channel holds them.
RECURSIVE DeliveredOf(_)
DeliveredOf(F) ==
    IF F = << >> THEN << >>
    ELSE IF F[Len(F)].delivered
         THEN Append(DeliveredOf(SubSeq(F, 1, Len(F) - 1)), AtChannel(F[Len(F)]))
         ELSE DeliveredOf(SubSeq(F, 1, Len(F) - 1))

\* What the channel has taken under a streamId.
TakenUnder(id) == IF id \in DOMAIN sink THEN sink[id] ELSE << >>

\* C29 (stream identity under concurrency): every frame of an invocation
\* carries the stream_id of that invocation, and invocations have different
\* ids; so what the channel has taken under an id is the frames of that one
\* invocation in the order it sent them, whatever the interleaving: the k-th
\* frame of the two loops carries streamSequence k, a final frame stands
\* last, and the stream of an invocation that ran to its end ends with the
\* final frame. The `sequence` of an invocation counts its own frames only.
C29_StreamIdentity ==
    /\ \A n \in 1..Len(streams) :
        LET st == streams[n]
            T == TakenUnder(st.stream_id)
        IN /\ \A a \in 1..Len(st.frames) : st.frames[a].streamId = st.stream_id
           /\ \A o \in 1..Len(streams) :
                o # n => streams[o].stream_id # st.stream_id
           /\ T = DeliveredOf(st.frames)
           /\ \A k \in 1..Len(T) :
                IF T[k].streamType = "final"
                THEN k = Len(T)
                ELSE T[k].streamSequence = k
           /\ st.pc = "done" => (Len(T) > 0 /\ T[Len(T)].streamType = "final")
           /\ st.pc \in {"informative", "streaming", "final"} =>
                st.sequence = Len(st.frames) + 1
    /\ \A id \in DOMAIN sink :
        \E n \in 1..Len(streams) : streams[n].stream_id = id

\* Two invocations are under way at once, the first in its word loop and
\* the second in its loop over the thinking events, each with its own
\* `sequence`, and the channel holds frames of both streams.
C29_Witness ==
    /\ Len(streams) >= 2
    /\ streams[1].pc = "streaming"
    /\ streams[2].pc = "informative"
    /\ streams[1].stream_id # streams[2].stream_id
    /\ streams[1].sequence = Len(thinking_events) + 3
    /\ streams[2].sequence = 3
    /\ Len(TakenUnder(streams[1].stream_id)) = Len(thinking_events) + 2
    /\ Len(TakenUnder(streams[2].stream_id)) = 2
\* The first k of the words `ws`, with one space between neighbours.
RECURSIVE JoinFirst(_, _)
JoinFirst(ws, k) ==
    IF k = 0 THEN << >>
    ELSE IF k = 1 THEN ws[1]
    ELSE JoinFirst(ws, k - 1) \o <<" ">> \o ws[k]

\* The frames of the word loop of an invocation, in the order it sent them.
StreamingFrames(st) ==
    SelectSeq(st.frames, LAMBDA frame : frame.streamType = "streaming")

\* C30 (cumulative framing): in every stream the k-th frame of the word
\* loop carries the first k words of full_response.split() with single
\* spaces between them; so its text is the text of the frame before it and
\* more; and the text of the last frame of the word loop is the text of the
\* final frame.
C30_CumulativeFraming ==
    \A n \in 1..Len(streams) :
        LET st == streams[n]
            W == StreamingFrames(st)
        IN /\ Len(W) <= Len(words)
           /\ \A k \in 1..Len(W) :
                /\ W[k].text = JoinFirst(words, k)
                /\ k > 1 =>
                     /\ IsPrefix(W[k - 1].text, W[k].text)
                     /\ Len(W[k - 1].text) < Len(W[k].text)
           /\ \A a \in FramesOf(st, "final") :
                /\ Len(W) = Len(words)
                /\ W[Len(W)].text = st.frames[a].text

\* An invocation ran to its end: its second word frame carries two words,
\* and its last one the whole response, as the final frame does.
C30_Witness ==
    \E n \in 1..Len(streams) :
        LET st == streams[n]
            W == StreamingFrames(st)
        IN /\ st.pc = "done"
           /\ Len(W) = Len(words)
           /\ Len(words) >= 2
           /\ W[1].text = words[1]
           /\ W[2].text = words[1] \o <<" ">> \o words[2]
           /\ W[Len(W)].text = full_response
           /\ st.frames[Len(st.frames)].streamType = "final"
           /\ st.frames[Len(st.frames)].text = full_response

====
